---- MODULE Spec2Model ----
(***************************************************************************)
(* bbalgjs: the fixed-size queue (createFixedQueue) and the two versions   *)
(* of stateVerdict (ratio mode and count mode) of src/unnamed/part_002.    *)
(***************************************************************************)
EXTENDS Integers, Sequences, FiniteSets, TLC

VARIABLES
    heap,       \* the arrays that exist: reference -> contents
    q,          \* the queue object of createFixedQueue (its closure: items, maxLength)
    arg,        \* the argument of the last createFixedQueue call
    thrown,     \* the message of the Error the last createFixedQueue call threw, "" if none
    pushed,     \* history: every item pushed so far, in order
    array1,     \* the caller's first snapshot variable (const array1 = queue.toArray())
    array2,     \* the caller's second snapshot variable
    untouched,  \* history: the snapshot variables whose array is as toArray returned it,
                \* with no push since
    longTrackingHistory,    \* stateVerdict's arguments
    shortTrackingHistory,
    longMaxLength,
    shortMaxLength,
    result,     \* what the stateVerdict call returned or threw
    longQueue,  \* a tracker's long window: the items and maxLength of its queue
    shortQueue, \* a tracker's short window
    stream,     \* history: the observations a tracker has pushed, in order
    verdicts,   \* history: what the tracker's stateVerdict call gave at each step
    pc          \* where the caller is: "queue"; "count", "ratio" before a stateVerdict
                \* call and "done" after it

queueVars == <<heap, q, arg, thrown, pushed, array1, array2, untouched>>
verdictVars == <<longTrackingHistory, shortTrackingHistory, longMaxLength,
                 shortMaxLength, result>>
trackVars == <<longQueue, shortQueue, stream, verdicts>>
vars == <<queueVars, verdictVars, trackVars, pc>>

(***************************************************************************)
(* Bounds of the model.                                                    *)
(***************************************************************************)
\* the largest capacity a queue is created with
MaxCap == 2
\* the most pushes a run makes
MaxPushes == 3
\* references available to the allocator: items, two snapshots, one being built
NumRefs == 4

(***************************************************************************)
(* JavaScript values that reach a numeric parameter.  A number is the      *)
(* rational num/den in lowest terms (den >= 1); den = 0 is NaN (num = 0)   *)
(* or +/-Infinity (num = 1, -1).                                           *)
(***************************************************************************)
Num(n) == [type |-> "number", num |-> n, den |-> 1]
Frac(n, d) == [type |-> "number", num |-> n, den |-> d]
NaN == [type |-> "number", num |-> 0, den |-> 0]
Infinity == [type |-> "number", num |-> 1, den |-> 0]
Str == [type |-> "string", num |-> 0, den |-> 0]
Undefined == [type |-> "undefined", num |-> 0, den |-> 0]

typeof(v) == v.type
IsNaN(v) == v.type = "number" /\ v.den = 0 /\ v.num = 0
\* Number.isInteger(v): a number, finite, with no fractional part
NumberIsInteger(v) == v.type = "number" /\ v.den = 1
\* v <= 0 for a number v (false for NaN)
LeqZero(v) == ~IsNaN(v) /\ v.num <= 0
\* n < v for an integer n and a number v (false for NaN)
IntLess(n, v) ==
    IF v.den = 0 THEN v.num > 0 ELSE n * v.den < v.num

(***************************************************************************)
(* createFixedQueue                                                        *)
(***************************************************************************)
MaxLengthMessage == "maxLength must be a positive integer"

\* variant: the guard with < 0 in place of <= 0
createFixedQueueThrowsZeroOk(maxLength) ==
    \/ ~NumberIsInteger(maxLength)
    \/ maxLength.num < 0

\* the guard of the throw, with || skipping the comparison of a non-integer
createFixedQueueThrows(maxLength) ==
    \/ ~NumberIsInteger(maxLength)
    \/ LeqZero(maxLength)

\* variant: pop() in place of shift()
pushDropsNewest(items, maxLength, item) ==
    LET a == Append(items, item)
    IN  IF Len(a) > maxLength THEN SubSeq(a, 1, Len(a) - 1) ELSE a

\* variant: >= in place of >
pushEvictsWhenFull(items, maxLength, item) ==
    LET a == Append(items, item)
    IN  IF Len(a) >= maxLength THEN Tail(a) ELSE a

\* push(item) on the items array: append, then drop the oldest when over capacity
push(items, maxLength, item) ==
    LET a == Append(items, item)
    IN  IF Len(a) > maxLength THEN Tail(a) ELSE a

\* push statement by statement: items.push(item)
pushAppend(items, item) == Append(items, item)

\* variant: the eviction test against maxLength + 1
pushEvictLate(items, maxLength) ==
    IF Len(items) > maxLength + 1 THEN Tail(items) ELSE items

\* if (items.length > maxLength) items.shift()
pushEvict(items, maxLength) ==
    IF Len(items) > maxLength THEN Tail(items) ELSE items

\* the lowest reference no array uses
FreshRef(h) == CHOOSE r \in (1..NumRefs) \ DOMAIN h :
                   \A s \in (1..NumRefs) \ DOMAIN h : r <= s

\* toArray(): [...items], a new array holding the items; the result is the
\* reference returned and the heap after the call
\* variant: return items in place of [...items]
toArrayAliases(h, items) == [ref |-> items, heap |-> h]

toArray(h, items) ==
    LET r == FreshRef(h)
    IN  [ref |-> r, heap |-> (r :> h[items]) @@ h]

\* the length getter and the maxLength getter
length(h, queue) == Len(h[queue.items])
maxLength(queue) == queue.maxLength

\* arrays no variable refers to any more are collected
Collect(h, live) == [r \in (DOMAIN h) \cap live |-> h[r]]

\* before the first call there is no argument
NotCalled == [type |-> "none", num |-> 0, den |-> 0]

NoQueue == [exists |-> FALSE, items |-> 0, maxLength |-> 0]

\* the values createFixedQueue is called with
MaxLengthArgs ==
    {Num(n) : n \in -1..MaxCap} \cup {Frac(3, 2), NaN, Infinity, Str, Undefined}

Items == BOOLEAN

\* a value passed as a tracking history: an array of booleans, or not an array
Array(elems) == [isArray |-> TRUE, elems |-> elems]
NotArray == [isArray |-> FALSE, elems |-> << >>]

\* what a stateVerdict call gives: the three flags, or the Error it threw
Verdict(inProgress, start, end) ==
    [threw |-> FALSE, message |-> "",
     stateInProgress |-> inProgress, stateStartJudgment |-> start,
     stateEndJudgment |-> end]
Throw(message) ==
    [threw |-> TRUE, message |-> message,
     stateInProgress |-> FALSE, stateStartJudgment |-> FALSE,
     stateEndJudgment |-> FALSE]

\* no tracker runs in the programs of single calls
NoTracker ==
    /\ longQueue = [items |-> << >>, maxLength |-> 0]
    /\ shortQueue = [items |-> << >>, maxLength |-> 0]
    /\ stream = << >>
    /\ verdicts = << >>

\* no stateVerdict call is part of the queue program
NoVerdictCall ==
    /\ longTrackingHistory = NotArray
    /\ shortTrackingHistory = NotArray
    /\ longMaxLength = Undefined
    /\ shortMaxLength = Undefined
    /\ result = Verdict(FALSE, FALSE, FALSE)

InitQueue ==
    /\ heap = << >>
    /\ q = NoQueue
    /\ arg = NotCalled
    /\ thrown = ""
    /\ pushed = << >>
    /\ array1 = 0
    /\ array2 = 0
    /\ untouched = {}
    /\ pc = "queue"
    /\ NoVerdictCall
    /\ NoTracker

\* const queue = createFixedQueue(a)
Create(a) ==
    /\ pc = "queue"
    /\ ~q.exists
    /\ arg' = a
    /\ IF createFixedQueueThrows(a)
       THEN /\ thrown' = MaxLengthMessage
            /\ UNCHANGED <<heap, q>>
       ELSE /\ thrown' = ""
            /\ LET r == FreshRef(heap)
               IN  /\ heap' = (r :> << >>) @@ heap
                   /\ q' = [exists |-> TRUE, items |-> r, maxLength |-> a.num]
    /\ UNCHANGED <<pushed, array1, array2, untouched, pc, verdictVars, trackVars>>

\* queue.push(item)
Push(item) ==
    /\ pc = "queue"
    /\ q.exists
    /\ Len(pushed) < MaxPushes
    /\ heap' = [heap EXCEPT ![q.items] = push(heap[q.items], q.maxLength, item)]
    /\ pushed' = Append(pushed, item)
    /\ untouched' = {}
    /\ UNCHANGED <<q, arg, thrown, array1, array2, pc, verdictVars, trackVars>>

\* array1 = queue.toArray()
ToArray1 ==
    /\ pc = "queue"
    /\ q.exists
    /\ LET t == toArray(heap, q.items)
       IN  /\ array1' = t.ref
           /\ heap' = Collect(t.heap, {q.items, t.ref, array2})
    /\ untouched' = untouched \cup {"array1"}
    /\ UNCHANGED <<q, arg, thrown, pushed, array2, pc, verdictVars, trackVars>>

\* array2 = queue.toArray()
ToArray2 ==
    /\ pc = "queue"
    /\ q.exists
    /\ LET t == toArray(heap, q.items)
       IN  /\ array2' = t.ref
           /\ heap' = Collect(t.heap, {q.items, t.ref, array1})
    /\ untouched' = untouched \cup {"array2"}
    /\ UNCHANGED <<q, arg, thrown, pushed, array1, pc, verdictVars, trackVars>>

\* the snapshot variables that refer to array a
Holders(a) == {n \in {"array1", "array2"} :
                  (n = "array1" /\ array1 = a) \/ (n = "array2" /\ array2 = a)}

\* the caller changes a snapshot it holds: a.push(v), a.shift(), a[i] = v
SnapshotAppend(a, v) ==
    /\ pc = "queue"
    /\ a # 0
    /\ Len(heap[a]) <= q.maxLength
    /\ heap' = [heap EXCEPT ![a] = Append(@, v)]
    /\ untouched' = untouched \ Holders(a)
    /\ UNCHANGED <<q, arg, thrown, pushed, array1, array2, pc, verdictVars, trackVars>>

SnapshotRemove(a) ==
    /\ pc = "queue"
    /\ a # 0
    /\ Len(heap[a]) > 0
    /\ heap' = [heap EXCEPT ![a] = Tail(@)]
    /\ untouched' = untouched \ Holders(a)
    /\ UNCHANGED <<q, arg, thrown, pushed, array1, array2, pc, verdictVars, trackVars>>

SnapshotOverwrite(a, i, v) ==
    /\ pc = "queue"
    /\ a # 0
    /\ i \in 1..Len(heap[a])
    /\ heap' = [heap EXCEPT ![a] = [@ EXCEPT ![i] = v]]
    /\ untouched' = untouched \ Holders(a)
    /\ UNCHANGED <<q, arg, thrown, pushed, array1, array2, pc, verdictVars, trackVars>>

NextQueue ==
    \/ \E a \in MaxLengthArgs : Create(a)
    \/ \E item \in Items : Push(item)
    \/ ToArray1
    \/ ToArray2
    \/ \E a \in {array1, array2}, v \in Items : SnapshotAppend(a, v)
    \/ \E a \in {array1, array2} : SnapshotRemove(a)
    \/ \E a \in {array1, array2}, i \in 1..(MaxCap + 1), v \in Items :
           SnapshotOverwrite(a, i, v)

SpecQueue == InitQueue /\ [][NextQueue]_vars

(***************************************************************************)
(* push statement by statement: items.push(item), then the eviction test.  *)
(***************************************************************************)
\* the most pushes on the queue when each push takes two steps
MaxStepPushes == 5

\* queue.push(item) entered: items.push(item) executed
PushAppend(item) ==
    /\ pc = "queue"
    /\ q.exists
    /\ Len(pushed) < MaxStepPushes
    /\ heap' = [heap EXCEPT ![q.items] = pushAppend(heap[q.items], item)]
    /\ pushed' = Append(pushed, item)
    /\ untouched' = {}
    /\ pc' = "push"
    /\ UNCHANGED <<q, arg, thrown, array1, array2, verdictVars, trackVars>>

\* the rest of queue.push(item): the eviction test, then the return
PushEvict ==
    /\ pc = "push"
    /\ heap' = [heap EXCEPT ![q.items] = pushEvict(heap[q.items], q.maxLength)]
    /\ pc' = "queue"
    /\ UNCHANGED <<q, arg, thrown, pushed, array1, array2, untouched,
                   verdictVars, trackVars>>

NextPushSteps ==
    \/ \E a \in MaxLengthArgs : Create(a)
    \/ \E item \in Items : PushAppend(item)
    \/ PushEvict

SpecPushSteps == InitQueue /\ [][NextPushSteps]_vars

(***************************************************************************)
(* stateVerdict, count mode (the four-parameter version)                   *)
(***************************************************************************)
\* the most elements of a long and of a short history passed to count mode
MaxLong == 4
MaxShort == 4

ArraysMessage == "Both tracking histories must be arrays"
LongMaxLengthMessage == "longMaxLength must be a positive number"
ShortMaxLengthMessage == "shortMaxLength must be a positive number"
TogetherMessage == "Both maxLength parameters must be provided together"

\* variant: the filter keeps every element
countEvery(elems) == Len(elems)

\* history.filter(val => val === true).length
RECURSIVE countTrue(_)
countTrue(elems) ==
    IF elems = << >> THEN 0
    ELSE (IF Head(elems) = TRUE THEN 1 ELSE 0) + countTrue(Tail(elems))

\* variant: the length parameters examined before Array.isArray
validateCountParamsFirst(long, short, lml, sml) ==
    IF lml # Undefined /\ (typeof(lml) # "number" \/ LeqZero(lml))
        THEN LongMaxLengthMessage
    ELSE IF sml # Undefined /\ (typeof(sml) # "number" \/ LeqZero(sml))
        THEN ShortMaxLengthMessage
    ELSE IF (lml = Undefined) # (sml = Undefined)
        THEN TogetherMessage
    ELSE IF ~long.isArray \/ ~short.isArray THEN ArraysMessage
    ELSE ""

\* the checks that throw, in the order of the code; "" when none throws
validateCount(long, short, lml, sml) ==
    IF ~long.isArray \/ ~short.isArray THEN ArraysMessage
    ELSE IF lml # Undefined \/ sml # Undefined
    THEN IF lml # Undefined /\ (typeof(lml) # "number" \/ LeqZero(lml))
             THEN LongMaxLengthMessage
         ELSE IF sml # Undefined /\ (typeof(sml) # "number" \/ LeqZero(sml))
             THEN ShortMaxLengthMessage
         ELSE IF (lml = Undefined) # (sml = Undefined)
             THEN TogetherMessage
         ELSE ""
    ELSE ""

\* variant: && in place of || between the two length comparisons
insufficientOnlyBoth(longLength, shortLength, lml, sml) ==
    \/ longLength = 0 \/ shortLength = 0
    \/ /\ lml # Undefined /\ sml # Undefined
       /\ IntLess(longLength, lml) /\ IntLess(shortLength, sml)

\* variant: the ratio version's length < 2 test kept as an early return
insufficientBelowTwo(longLength, shortLength, lml, sml) ==
    \/ longLength < 2 \/ shortLength < 2
    \/ /\ lml # Undefined /\ sml # Undefined
       /\ (IntLess(longLength, lml) \/ IntLess(shortLength, sml))

\* the two early returns of all-false: an empty history, an incomplete history
insufficient(longLength, shortLength, lml, sml) ==
    \/ longLength = 0 \/ shortLength = 0
    \/ /\ lml # Undefined /\ sml # Undefined
       /\ (IntLess(longLength, lml) \/ IntLess(shortLength, sml))

\* variant: Math.ceil in place of Math.floor
floorHalfRoundsUp(n) == (n + 1) \div 2

\* Math.floor(longLength / 2) of a length
floorHalf(n) == n \div 2

\* variant: > in place of >= in stateInProgress
judgeCountStrict(longTrueCount, longLength, shortTrueCount, shortLength) ==
    Verdict(
        longTrueCount > floorHalf(longLength) /\ shortTrueCount >= shortLength - 1,
        longTrueCount = floorHalf(longLength) /\ shortTrueCount >= shortLength - 1,
        longTrueCount = floorHalf(longLength) /\ shortTrueCount <= 1)

\* variant: the end threshold M - 1 in place of 1
judgeCountEndRelative(longTrueCount, longLength, shortTrueCount, shortLength) ==
    Verdict(
        longTrueCount >= floorHalf(longLength) /\ shortTrueCount >= shortLength - 1,
        longTrueCount = floorHalf(longLength) /\ shortTrueCount >= shortLength - 1,
        longTrueCount = floorHalf(longLength) /\ shortTrueCount <= shortLength - 1)

\* the three judgments from the counts
judgeCount(longTrueCount, longLength, shortTrueCount, shortLength) ==
    Verdict(
        longTrueCount >= floorHalf(longLength) /\ shortTrueCount >= shortLength - 1,
        longTrueCount = floorHalf(longLength) /\ shortTrueCount >= shortLength - 1,
        longTrueCount = floorHalf(longLength) /\ shortTrueCount <= 1)

stateVerdictCount(long, short, lml, sml) ==
    LET message == validateCount(long, short, lml, sml)
        longLength == Len(long.elems)
        shortLength == Len(short.elems)
    IN  IF message # "" THEN Throw(message)
        ELSE IF insufficient(longLength, shortLength, lml, sml)
            THEN Verdict(FALSE, FALSE, FALSE)
        ELSE judgeCount(countTrue(long.elems), longLength,
                        countTrue(short.elems), shortLength)

\* the arrays of at most n booleans
RECURSIVE BoolSeqs(_)
BoolSeqs(n) ==
    IF n = 0 THEN {<< >>}
    ELSE LET shorter == BoolSeqs(n - 1)
         IN  shorter \cup {Append(s, b) : s \in {t \in shorter : Len(t) = n - 1},
                                          b \in BOOLEAN}

Histories(n) == {Array(s) : s \in BoolSeqs(n)} \cup {NotArray}

\* the values passed as longMaxLength and shortMaxLength
MaxLengthParams(n) ==
    {Num(k) : k \in -1..(n + 1)} \cup {Frac(5, 2), NaN, Infinity, Str, Undefined}

QueueUnused ==
    /\ heap = << >>
    /\ q = NoQueue
    /\ arg = NotCalled
    /\ thrown = ""
    /\ pushed = << >>
    /\ array1 = 0
    /\ array2 = 0
    /\ untouched = {}

InitCount ==
    /\ QueueUnused
    /\ longTrackingHistory \in Histories(MaxLong)
    /\ shortTrackingHistory \in Histories(MaxShort)
    /\ longMaxLength \in MaxLengthParams(MaxLong)
    /\ shortMaxLength \in MaxLengthParams(MaxShort)
    /\ result = Verdict(FALSE, FALSE, FALSE)
    /\ NoTracker
    /\ pc = "count"

\* result = stateVerdict(longTrackingHistory, shortTrackingHistory,
\*                       longMaxLength, shortMaxLength)
CallCount ==
    /\ pc = "count"
    /\ result' = stateVerdictCount(longTrackingHistory, shortTrackingHistory,
                                   longMaxLength, shortMaxLength)
    /\ pc' = "done"
    /\ UNCHANGED <<queueVars, trackVars, longTrackingHistory, shortTrackingHistory,
                   longMaxLength, shortMaxLength>>

NextCount == CallCount

SpecCount == InitCount /\ [][NextCount]_vars

(***************************************************************************)
(* stateVerdict, ratio mode (the two-parameter version)                    *)
(***************************************************************************)
\* the most elements of a long and of a short history passed to ratio mode
MaxRatioLong == 4
MaxRatioShort == 10

EmptyMessage == "Tracking histories cannot be empty"
InsufficientMessage == "Insufficient history entries for processing"

(* A JavaScript number is an IEEE 754 double.  The ratios are in [0, 1]: a   *)
(* double here is zero, or 2^exp * 1.f with the bits of 1.f in mant, first   *)
(* bit 1.  Zero has the lowest exponent and a zero mantissa.                 *)
MantissaBits == 53
Double(exp, mant) == [exp |-> exp, mant |-> mant]
DoubleZero == Double(-1023, [i \in 1..MantissaBits |-> 0])

RECURSIVE Repeat(_, _)
Repeat(bits, n) == IF n = 0 THEN << >> ELSE bits \o Repeat(bits, n - 1)

\* the literals 0.5, 0.9 and 0.1: 0x3FE0000000000000, 0x3FECCCCCCCCCCCCD,
\* 0x3FB999999999999A
Literal05 == Double(-1, <<1>> \o Repeat(<<0, 0, 0, 0>>, 13))
Literal09 == Double(-1, <<1>> \o Repeat(<<1, 1, 0, 0>>, 12) \o <<1, 1, 0, 1>>)
Literal01 == Double(-4, <<1>> \o Repeat(<<1, 0, 0, 1>>, 12) \o <<1, 0, 1, 0>>)

\* the k with b <= a * 2^k < 2b, for 0 < a <= b
RECURSIVE NormShift(_, _)
NormShift(a, b) == IF a >= b THEN 0 ELSE 1 + NormShift(2 * a, b)

RECURSIVE Pow2(_)
Pow2(k) == IF k = 0 THEN 1 ELSE 2 * Pow2(k - 1)

\* n more bits of the quotient r/b (r < b), and the remainder left
RECURSIVE LongDiv(_, _, _)
LongDiv(r, b, n) ==
    IF n = 0 THEN [bits |-> << >>, rem |-> r]
    ELSE IF n = 1
    THEN LET bit == IF 2 * r >= b THEN 1 ELSE 0
         IN  [bits |-> <<bit>>, rem |-> 2 * r - bit * b]
    ELSE LET first == LongDiv(r, b, n \div 2)
             rest == LongDiv(first.rem, b, n - n \div 2)
         IN  [bits |-> first.bits \o rest.bits, rem |-> rest.rem]

\* mant + 1 in the last place, from bit i down; all ones wrap to all zeros
RECURSIVE AddOne(_, _)
AddOne(mant, i) ==
    IF i = 0 THEN mant
    ELSE IF mant[i] = 0 THEN [mant EXCEPT ![i] = 1]
    ELSE AddOne([mant EXCEPT ![i] = 0], i - 1)

\* variant: the quotient truncated in place of rounded to nearest
DivideTruncating(a, b) ==
    IF a = 0 THEN DoubleZero
    ELSE LET k == NormShift(a, b)
             d == LongDiv(a * Pow2(k) - b, b, MantissaBits - 1)
         IN  Double(-k, <<1>> \o d.bits)

\* a / b in double arithmetic for integers 0 <= a <= b, b > 0: the quotient
\* rounded to nearest, ties to even
Divide(a, b) ==
    IF a = 0 THEN DoubleZero
    ELSE LET k == NormShift(a, b)
             d == LongDiv(a * Pow2(k) - b, b, MantissaBits - 1)
             mant == <<1>> \o d.bits
             guard == 2 * d.rem >= b
             sticky == 2 * d.rem - (IF guard THEN b ELSE 0) > 0
             up == guard /\ (sticky \/ mant[MantissaBits] = 1)
             allOnes == \A i \in 1..MantissaBits : mant[i] = 1
         IN  IF ~up THEN Double(-k, mant)
             ELSE IF allOnes THEN Double(1 - k, [AddOne(mant, MantissaBits) EXCEPT ![1] = 1])
             ELSE Double(-k, AddOne(mant, MantissaBits))

\* the quotients of every count by every length, computed once
Quotients ==
    [b \in 1..(MaxRatioLong + MaxRatioShort) |-> [a \in 0..b |-> Divide(a, b)]]

\* the comparisons of doubles: by exponent, then by mantissa from the first bit
MantLess(m, n) ==
    \E i \in 1..MantissaBits :
        /\ m[i] < n[i]
        /\ \A j \in 1..(i - 1) : m[j] = n[j]
Less(x, y) == x.exp < y.exp \/ (x.exp = y.exp /\ MantLess(x.mant, y.mant))
Greater(x, y) == Less(y, x)
GreaterEq(x, y) == ~Less(x, y)
LessEq(x, y) == ~Less(y, x)

\* variant: the length < 2 check before the length === 0 check
validateRatioLengthFirst(long, short) ==
    IF ~long.isArray \/ ~short.isArray THEN ArraysMessage
    ELSE IF Len(long.elems) < 2 \/ Len(short.elems) < 2 THEN InsufficientMessage
    ELSE IF Len(long.elems) = 0 \/ Len(short.elems) = 0 THEN EmptyMessage
    ELSE ""

\* the checks that throw, in the order of the code; "" when none throws
validateRatio(long, short) ==
    IF ~long.isArray \/ ~short.isArray THEN ArraysMessage
    ELSE IF Len(long.elems) = 0 \/ Len(short.elems) = 0 THEN EmptyMessage
    ELSE IF Len(long.elems) < 2 \/ Len(short.elems) < 2 THEN InsufficientMessage
    ELSE ""

\* variant: >= in place of > in stateInProgress
judgeRatioInclusive(longTrueCount, longLength, shortTrueCount, shortLength) ==
    LET longRatio == Quotients[longLength][longTrueCount]
        shortRatio == Quotients[shortLength][shortTrueCount]
    IN  Verdict(
            GreaterEq(longRatio, Literal05) /\ GreaterEq(shortRatio, Literal09),
            longRatio = Literal05 /\ GreaterEq(shortRatio, Literal09),
            longRatio = Literal05 /\ LessEq(shortRatio, Literal01))

\* the three judgments from the two ratios
judgeRatio(longTrueCount, longLength, shortTrueCount, shortLength) ==
    LET longRatio == Quotients[longLength][longTrueCount]
        shortRatio == Quotients[shortLength][shortTrueCount]
    IN  Verdict(
            Greater(longRatio, Literal05) /\ GreaterEq(shortRatio, Literal09),
            longRatio = Literal05 /\ GreaterEq(shortRatio, Literal09),
            longRatio = Literal05 /\ LessEq(shortRatio, Literal01))

stateVerdictRatio(long, short) ==
    LET message == validateRatio(long, short)
    IN  IF message # "" THEN Throw(message)
        ELSE judgeRatio(countTrue(long.elems), Len(long.elems),
                        countTrue(short.elems), Len(short.elems))

InitRatio ==
    /\ QueueUnused
    /\ longTrackingHistory \in Histories(MaxRatioLong)
    /\ shortTrackingHistory \in Histories(MaxRatioShort)
    /\ longMaxLength = Undefined
    /\ shortMaxLength = Undefined
    /\ result = Verdict(FALSE, FALSE, FALSE)
    /\ NoTracker
    /\ pc = "ratio"

\* result = stateVerdict(longTrackingHistory, shortTrackingHistory)
CallRatio ==
    /\ pc = "ratio"
    /\ result' = stateVerdictRatio(longTrackingHistory, shortTrackingHistory)
    /\ pc' = "done"
    /\ UNCHANGED <<queueVars, trackVars, longTrackingHistory, shortTrackingHistory,
                   longMaxLength, shortMaxLength>>

NextRatio == CallRatio

SpecRatio == InitRatio /\ [][NextRatio]_vars

(***************************************************************************)
(* stateVerdict of either version called once: the count-mode version with *)
(* four arguments, or the ratio-mode version with two.                     *)
(***************************************************************************)
InitVerdict == InitCount \/ InitRatio

NextVerdict == NextCount \/ NextRatio

SpecVerdict == InitVerdict /\ [][NextVerdict]_vars

(***************************************************************************)
(* A tracker: two queues fed the same observations, and stateVerdict in    *)
(* count mode on their snapshots after every push.                         *)
(***************************************************************************)
\* the largest capacity of a tracker's queue
MaxWindow == 4

\* the queue createFixedQueue(n) returns for a positive integer n
newQueue(n) == [items |-> << >>, maxLength |-> n]

\* queue.push(item) and queue.toArray() on a tracker's queue
queuePush(queue, item) ==
    [queue EXCEPT !.items = push(queue.items, queue.maxLength, item)]
queueToArray(queue) == Array([i \in 1..Len(queue.items) |-> queue.items[i]])

InitTrackCount ==
    /\ QueueUnused
    /\ NoVerdictCall
    /\ longQueue \in {newQueue(n) : n \in 1..MaxWindow}
    /\ shortQueue \in {newQueue(n) : n \in 1..MaxWindow}
    /\ stream = << >>
    /\ verdicts = << >>
    /\ pc = "trackCount"

\* longQueue.push(tracked); shortQueue.push(tracked);
\* result = stateVerdict(longQueue.toArray(), shortQueue.toArray(), L, S)
ObserveCount(tracked) ==
    /\ pc = "trackCount"
    /\ Len(stream) < 2 * MaxWindow + 1
    /\ longQueue' = queuePush(longQueue, tracked)
    /\ shortQueue' = queuePush(shortQueue, tracked)
    /\ stream' = Append(stream, tracked)
    /\ longTrackingHistory' = queueToArray(longQueue')
    /\ shortTrackingHistory' = queueToArray(shortQueue')
    /\ longMaxLength' = Num(longQueue.maxLength)
    /\ shortMaxLength' = Num(shortQueue.maxLength)
    /\ result' = stateVerdictCount(longTrackingHistory', shortTrackingHistory',
                                   longMaxLength', shortMaxLength')
    /\ verdicts' = Append(verdicts, result')
    /\ UNCHANGED <<queueVars, pc>>

NextTrackCount == \E tracked \in BOOLEAN : ObserveCount(tracked)

SpecTrackCount == InitTrackCount /\ [][NextTrackCount]_vars

(***************************************************************************)
(* The tracker of the ratio-mode version: queues of capacity 6 and 3, and  *)
(* the two-argument stateVerdict after each push that leaves both queues   *)
(* with at least two items.                                                *)
(***************************************************************************)
LongCapacity == 6
ShortCapacity == 3
trackingData == <<FALSE, FALSE, FALSE, TRUE, TRUE, TRUE, TRUE, TRUE>>

\* the entry of verdicts for a step at which stateVerdict is not called
Skipped ==
    [threw |-> FALSE, message |-> "skipped", stateInProgress |-> FALSE,
     stateStartJudgment |-> FALSE, stateEndJudgment |-> FALSE]

InitTrackRatio ==
    /\ QueueUnused
    /\ NoVerdictCall
    /\ longQueue = newQueue(LongCapacity)
    /\ shortQueue = newQueue(ShortCapacity)
    /\ stream = << >>
    /\ verdicts = << >>
    /\ pc = "trackRatio"

\* longQueue.push(tracked); shortQueue.push(tracked);
\* if (longQueue.length >= 2 && shortQueue.length >= 2)
\*     result = stateVerdict(longQueue.toArray(), shortQueue.toArray())
ObserveRatio(tracked) ==
    /\ pc = "trackRatio"
    /\ Len(stream) < Len(trackingData)
    /\ longQueue' = queuePush(longQueue, tracked)
    /\ shortQueue' = queuePush(shortQueue, tracked)
    /\ stream' = Append(stream, tracked)
    /\ IF Len(longQueue'.items) >= 2 /\ Len(shortQueue'.items) >= 2
       THEN /\ longTrackingHistory' = queueToArray(longQueue')
            /\ shortTrackingHistory' = queueToArray(shortQueue')
            /\ result' = stateVerdictRatio(longTrackingHistory',
                                           shortTrackingHistory')
            /\ verdicts' = Append(verdicts, result')
       ELSE /\ verdicts' = Append(verdicts, Skipped)
            /\ UNCHANGED <<longTrackingHistory, shortTrackingHistory, result>>
    /\ UNCHANGED <<queueVars, longMaxLength, shortMaxLength, pc>>

NextTrackRatio == \E tracked \in BOOLEAN : ObserveRatio(tracked)

SpecTrackRatio == InitTrackRatio /\ [][NextTrackRatio]_vars

(***************************************************************************)
(* Claims about the queue, checked under SpecQueue.                        *)
(***************************************************************************)
Min(a, b) == IF a < b THEN a ELSE b
\* the last n elements of s
LastN(s, n) == SubSeq(s, Len(s) - n + 1, Len(s))
\* the array a snapshot variable refers to
RefOf(n) == IF n = "array1" THEN array1 ELSE array2
\* what queue.toArray() returns in this state
ToArrayNow == LET t == toArray(heap, q.items) IN t.heap[t.ref]

\* C1: after k pushes toArray() returns the last min(k, maxLength) pushed items,
\* oldest first; after maxLength+1 pushes the first pushed item is gone.  Both
\* for a call made now and for every snapshot a variable holds as returned.
C1_LastItemsInOrder ==
    q.exists =>
        LET want == LastN(pushed, Min(Len(pushed), q.maxLength))
        IN  /\ ToArrayNow = want
            /\ \A n \in untouched : heap[RefOf(n)] = want
            /\ Len(pushed) = q.maxLength + 1 => ToArrayNow = Tail(pushed)

\* capacity 2, three pushes, and a snapshot holding the last two
C1_Witness ==
    /\ q.exists
    /\ q.maxLength = 2
    /\ Len(pushed) = q.maxLength + 1
    /\ pushed[1] # pushed[2]
    /\ "array1" \in untouched
    /\ heap[array1] = Tail(pushed)

\* C2: after creation and after every push, 0 <= length <= maxLength,
\* length = min(pushes so far, maxLength), length is 0 right after creation,
\* and maxLength reads the value given at creation.
C2_LengthInvariant ==
    q.exists =>
        /\ 0 <= length(heap, q)
        /\ length(heap, q) <= maxLength(q)
        /\ length(heap, q) = Min(Len(pushed), maxLength(q))
        /\ pushed = << >> => length(heap, q) = 0
        /\ Num(maxLength(q)) = arg

\* capacity 2 after more than two pushes: length 2
C2_Witness ==
    /\ q.exists
    /\ Len(pushed) > maxLength(q)
    /\ length(heap, q) = maxLength(q)
    /\ maxLength(q) = 2

\* the caller changes a snapshot: one of SnapshotAppend, SnapshotRemove,
\* SnapshotOverwrite
SnapshotChange ==
    \E a \in {array1, array2} :
        \/ \E v \in Items : SnapshotAppend(a, v)
        \/ SnapshotRemove(a)
        \/ \E i \in 1..(MaxCap + 1), v \in Items : SnapshotOverwrite(a, i, v)

\* no snapshot is the queue's own array, two snapshots are two arrays, and two
\* snapshots returned after the same push and not changed since hold the same
SnapshotsDistinct ==
    /\ \A n \in {"array1", "array2"} : RefOf(n) # 0 => RefOf(n) # q.items
    /\ (array1 # 0 /\ array2 # 0) => array1 # array2
    /\ untouched = {"array1", "array2"} => heap[array1] = heap[array2]

\* the queue's length and what toArray() returns are the same after the step
QueueSame ==
    /\ q' = q
    /\ q.exists => /\ length(heap', q') = length(heap, q)
                   /\ ToArrayNow' = ToArrayNow

\* the arrays the snapshot variables refer to are the same after the step
SnapshotsSame ==
    \A n \in {"array1", "array2"} :
        RefOf(n) # 0 => RefOf(n)' = RefOf(n) /\ heap'[RefOf(n)] = heap[RefOf(n)]

\* C3: toArray() returns a fresh array: two calls with no push in between give
\* equal contents in distinct arrays, neither of them the queue's own storage;
\* a change of a snapshot (append, remove, overwrite) leaves the queue's length
\* and what toArray() returns unchanged; a push leaves every snapshot taken
\* earlier unchanged.
C3_FreshSnapshot ==
    /\ []SnapshotsDistinct
    /\ [][QueueSame \/ ~SnapshotChange]_vars
    /\ [][SnapshotsSame \/ ~(\E item \in Items : Push(item))]_vars

\* two snapshots taken after the same push, one of them then changed, and the
\* queue still holding what was pushed
C3_Witness ==
    /\ q.exists
    /\ array1 # 0 /\ array2 # 0
    /\ untouched = {"array2"}
    /\ Len(pushed) = 2
    /\ heap[array2] = pushed
    /\ heap[array1] # heap[array2]
    /\ heap[q.items] = pushed

\* a whole number greater than 0
IsPositiveInteger(v) == v.type = "number" /\ v.den = 1 /\ v.num >= 1

\* C4: createFixedQueue(maxLength) throws 'maxLength must be a positive integer'
\* and creates no queue when maxLength is zero, negative, a non-integer number
\* or not a number; it succeeds for every positive integer.
C4_CreateValidation ==
    arg # NotCalled =>
        IF IsPositiveInteger(arg)
        THEN q.exists /\ thrown = ""
        ELSE thrown = MaxLengthMessage /\ q = NoQueue /\ heap = << >>

\* a call with 0, -1, 1.5 or a string has thrown and left no queue
C4_Witness ==
    /\ arg \in {Num(0), Num(-1), Frac(3, 2), Str}
    /\ thrown = MaxLengthMessage
    /\ ~q.exists

(***************************************************************************)
(* Claims about count mode, checked under SpecCount.                       *)
(***************************************************************************)
\* the spec's error kinds, as the messages of the Errors the code throws
InvalidArgument ==
    {MaxLengthMessage, ArraysMessage, LongMaxLengthMessage, ShortMaxLengthMessage,
     TogetherMessage, EmptyMessage}
InsufficientHistory == {InsufficientMessage}

\* the number of true elements, and floor(n/2), stated without the code's operators
TrueElements(h) == Cardinality({i \in 1..Len(h.elems) : h.elems[i] = TRUE})
FloorOfHalf(n) == CHOOSE k \in 0..n : 2 * k <= n /\ n < 2 * (k + 1)
\* a supplied length parameter the validation accepts, and JavaScript's n >= v
NonPositive(v) == (v.den >= 1 /\ v.num <= 0) \/ (v.den = 0 /\ v.num < 0)
ValidParam(v) == v.type = "number" /\ ~NonPositive(v)
AtLeast(n, v) == v.den >= 1 /\ n * v.den >= v.num
Shorter(n, v) == (v.den >= 1 /\ n * v.den < v.num) \/ (v.den = 0 /\ v.num > 0)
AllFalse(r) ==
    ~r.threw /\ ~r.stateInProgress /\ ~r.stateStartJudgment /\ ~r.stateEndJudgment
CountCallDone ==
    /\ pc = "done"
    /\ longTrackingHistory.isArray /\ shortTrackingHistory.isArray
    /\ ValidParam(longMaxLength) /\ ValidParam(shortMaxLength)

\* C5: with both length parameters valid, N >= longMaxLength and
\* M >= shortMaxLength, the result is inProgress = longTrue >= floor(N/2) and
\* shortTrue >= M-1, start = longTrue = floor(N/2) and shortTrue >= M-1,
\* end = longTrue = floor(N/2) and shortTrue <= 1.
C5_CountFormulas ==
    LET N == Len(longTrackingHistory.elems)
        M == Len(shortTrackingHistory.elems)
        longTrue == TrueElements(longTrackingHistory)
        shortTrue == TrueElements(shortTrackingHistory)
    IN  (CountCallDone /\ AtLeast(N, longMaxLength) /\ AtLeast(M, shortMaxLength)) =>
            /\ ~result.threw
            /\ result.stateInProgress =
                   (longTrue >= FloorOfHalf(N) /\ shortTrue >= M - 1)
            /\ result.stateStartJudgment =
                   (longTrue = FloorOfHalf(N) /\ shortTrue >= M - 1)
            /\ result.stateEndJudgment =
                   (longTrue = FloorOfHalf(N) /\ shortTrue <= 1)

\* a long history of odd length at the start boundary: 1 of 3 true, floor(3/2) = 1
C5_Witness ==
    /\ CountCallDone
    /\ longTrackingHistory = Array(<<FALSE, FALSE, TRUE>>)
    /\ longMaxLength = Num(3)
    /\ shortTrackingHistory = Array(<<FALSE, TRUE, TRUE>>)
    /\ shortMaxLength = Num(3)
    /\ result = Verdict(TRUE, TRUE, FALSE)

\* C6: with valid length parameters, an empty history, a long history shorter
\* than longMaxLength or a short history shorter than shortMaxLength gives all
\* three flags false and no error, whatever the histories hold.
C6_ShortInputAllFalse ==
    LET N == Len(longTrackingHistory.elems)
        M == Len(shortTrackingHistory.elems)
    IN  (/\ CountCallDone
         /\ \/ N = 0 \/ M = 0
            \/ Shorter(N, longMaxLength) \/ Shorter(M, shortMaxLength)) =>
            AllFalse(result)

\* an incomplete long history of trues (3 of 5) with a complete short history
C6_Witness ==
    /\ CountCallDone
    /\ longTrackingHistory = Array(<<TRUE, TRUE, TRUE>>)
    /\ longMaxLength = Num(5)
    /\ shortTrackingHistory = Array(<<TRUE, TRUE>>)
    /\ shortMaxLength = Num(2)
    /\ AllFalse(result)

\* a supplied length parameter that is not a number or is <= 0
BadParam(v) == v # Undefined /\ (v.type # "number" \/ NonPositive(v))

\* C7: stateVerdict throws an InvalidArgument error when a history is not an
\* array, when a supplied length parameter is not a number or is <= 0, and when
\* exactly one length parameter is supplied, also for empty or incomplete
\* histories; the non-array error comes before any length parameter is examined.
C7_CountValidation ==
    pc = "done" =>
        /\ (~longTrackingHistory.isArray \/ ~shortTrackingHistory.isArray) =>
               result = Throw(ArraysMessage)
        /\ (BadParam(longMaxLength) \/ BadParam(shortMaxLength)) =>
               result.threw /\ result.message \in InvalidArgument
        /\ ((longMaxLength = Undefined) # (shortMaxLength = Undefined)) =>
               result.threw /\ result.message \in InvalidArgument

\* empty histories, a zero longMaxLength: the error, not the all-false result
C7_Witness ==
    /\ pc = "done"
    /\ longTrackingHistory = Array(<< >>)
    /\ shortTrackingHistory = Array(<< >>)
    /\ longMaxLength = Num(0)
    /\ shortMaxLength = Num(1)
    /\ result = Throw(LongMaxLengthMessage)

(***************************************************************************)
(* Claims about ratio mode, checked under SpecRatio.                       *)
(***************************************************************************)
RatioVerdictGiven ==
    /\ pc = "done"
    /\ longTrackingHistory.isArray /\ shortTrackingHistory.isArray
    /\ Len(longTrackingHistory.elems) >= 2
    /\ Len(shortTrackingHistory.elems) >= 2

\* C8: for N >= 2 and M >= 2 the result is inProgress = longRatio > 0.5 and
\* shortRatio >= 0.9, start = longRatio = 0.5 and shortRatio >= 0.9,
\* end = longRatio = 0.5 and shortRatio <= 0.1, the ratios taken exactly:
\* 2*longTrue > N resp. = N, 10*shortTrue >= 9*M resp. 10*shortTrue <= M.
C8_RatioFormulas ==
    LET N == Len(longTrackingHistory.elems)
        M == Len(shortTrackingHistory.elems)
        longTrue == TrueElements(longTrackingHistory)
        shortTrue == TrueElements(shortTrackingHistory)
    IN  RatioVerdictGiven =>
            /\ ~result.threw
            /\ result.stateInProgress =
                   (2 * longTrue > N /\ 10 * shortTrue >= 9 * M)
            /\ result.stateStartJudgment =
                   (2 * longTrue = N /\ 10 * shortTrue >= 9 * M)
            /\ result.stateEndJudgment =
                   (2 * longTrue = N /\ 10 * shortTrue <= M)

\* the short ratio exactly at the 0.9 threshold: 9 of 10 true
C8_Witness ==
    /\ RatioVerdictGiven
    /\ longTrackingHistory = Array(<<TRUE, TRUE, TRUE, FALSE>>)
    /\ Len(shortTrackingHistory.elems) = 10
    /\ TrueElements(shortTrackingHistory) = 9
    /\ result = Verdict(TRUE, FALSE, FALSE)

\* C9: ratio mode throws InvalidArgument if a history is not an array; else
\* InvalidArgument ('cannot be empty') if a history is empty, even when the
\* other has one element; else InsufficientHistory if a history has exactly one
\* element; it returns a verdict exactly when both are arrays of length >= 2.
C9_RatioPreconditions ==
    LET N == Len(longTrackingHistory.elems)
        M == Len(shortTrackingHistory.elems)
    IN  pc = "done" =>
            IF ~longTrackingHistory.isArray \/ ~shortTrackingHistory.isArray
                THEN result = Throw(ArraysMessage) /\ ArraysMessage \in InvalidArgument
            ELSE IF N = 0 \/ M = 0
                THEN result = Throw(EmptyMessage) /\ EmptyMessage \in InvalidArgument
            ELSE IF N = 1 \/ M = 1
                THEN result.threw /\ result.message \in InsufficientHistory
            ELSE ~result.threw

\* an empty long history with a one-element short history: 'cannot be empty'
C9_Witness ==
    /\ pc = "done"
    /\ longTrackingHistory = Array(<< >>)
    /\ shortTrackingHistory = Array(<<TRUE>>)
    /\ result = Throw(EmptyMessage)

\* how many of the three flags are true
FlagsTrue(r) ==
    Cardinality({f \in {"stateInProgress", "stateStartJudgment", "stateEndJudgment"} :
                    r[f]})

\* C10: in a ratio-mode verdict start and end are never both true and
\* inProgress is never true together with start: at most one flag is true.
C10_AtMostOneFlag ==
    (pc = "done" /\ ~result.threw) =>
        /\ ~(result.stateStartJudgment /\ result.stateEndJudgment)
        /\ ~(result.stateInProgress /\ result.stateStartJudgment)
        /\ FlagsTrue(result) <= 1

\* the long ratio at 0.5 with a short history of trues: start alone
C10_Witness ==
    /\ RatioVerdictGiven
    /\ longTrackingHistory = Array(<<FALSE, FALSE, TRUE, TRUE>>)
    /\ shortTrackingHistory = Array(<<TRUE, TRUE>>)
    /\ result = Verdict(FALSE, TRUE, FALSE)

(***************************************************************************)
(* Further claims about count mode, under SpecCount.                       *)
(***************************************************************************)
\* the three flags of the floor/count formulas for the two histories
CountFormulas(long, short) ==
    LET N == Len(long.elems)
        M == Len(short.elems)
        longTrue == TrueElements(long)
        shortTrue == TrueElements(short)
    IN  Verdict(longTrue >= FloorOfHalf(N) /\ shortTrue >= M - 1,
                longTrue = FloorOfHalf(N) /\ shortTrue >= M - 1,
                longTrue = FloorOfHalf(N) /\ shortTrue <= 1)

OmittedCallDone ==
    /\ pc = "done"
    /\ longTrackingHistory.isArray /\ shortTrackingHistory.isArray
    /\ longMaxLength = Undefined /\ shortMaxLength = Undefined

\* C11 as stated: with both length parameters omitted, for every pair of array
\* histories the flags are the floor/count formulas on N and M, with no
\* short-circuit to all-false.
C11_OmittedAlwaysFormulas ==
    OmittedCallDone =>
        result = CountFormulas(longTrackingHistory, shortTrackingHistory)

\* C11, amended: with both length parameters omitted, for every pair of
\* non-empty array histories the flags are the floor/count formulas on N and M,
\* whatever the lengths; if a history is empty all three flags are false.
C11_OmittedFormulas ==
    OmittedCallDone =>
        IF longTrackingHistory.elems = << >> \/ shortTrackingHistory.elems = << >>
        THEN AllFalse(result)
        ELSE result = CountFormulas(longTrackingHistory, shortTrackingHistory)

\* one-element histories, which no completeness gate would pass: in progress
C11_Witness ==
    /\ OmittedCallDone
    /\ longTrackingHistory = Array(<<TRUE>>)
    /\ shortTrackingHistory = Array(<<TRUE>>)
    /\ result = Verdict(TRUE, FALSE, FALSE)

(***************************************************************************)
(* Claims about the tracker in count mode, under SpecTrackCount.           *)
(***************************************************************************)
\* C12: with a long queue of capacity L and a short queue of capacity S fed the
\* same stream, every stateVerdict(long.toArray(), short.toArray(), L, S) call
\* made before the long queue has received L pushes or before the short queue
\* has received S pushes returns all three flags false.
C12_FillingNeverSignals ==
    \A i \in 1..Len(verdicts) :
        (i < longQueue.maxLength \/ i < shortQueue.maxLength) =>
            AllFalse(verdicts[i])

\* two trues pushed: the short window (2) is full, the long one (3) is not
C12_Witness ==
    /\ longQueue.maxLength = 3
    /\ shortQueue.maxLength = 2
    /\ stream = <<TRUE, TRUE>>
    /\ Len(verdicts) = 2
    /\ AllFalse(verdicts[2])

\* C18: with S <= L and every observation pushed to both queues, after k steps
\* the short queue's snapshot is the last min(k, S) elements of the long
\* queue's snapshot, so the short window never holds more trues than the long.
C18_WindowConsistency ==
    shortQueue.maxLength <= longQueue.maxLength =>
        LET long == queueToArray(longQueue)
            short == queueToArray(shortQueue)
        IN  /\ short.elems =
                   LastN(long.elems, Min(Len(stream), shortQueue.maxLength))
            /\ TrueElements(short) <= TrueElements(long)

\* capacities 3 and 2 after four observations, the long window past its
\* capacity and holding more trues than the short one
C18_Witness ==
    /\ longQueue.maxLength = 3
    /\ shortQueue.maxLength = 2
    /\ stream = <<FALSE, TRUE, FALSE, TRUE>>
    /\ longQueue.items = <<TRUE, FALSE, TRUE>>
    /\ shortQueue.items = <<FALSE, TRUE>>

\* the stream is k >= L false observations followed by at most L true ones
LeadingFalses == Len(stream) - Cardinality({i \in 1..Len(stream) : stream[i]})
RisingEdgeRun ==
    /\ longQueue.maxLength >= 2
    /\ shortQueue.maxLength <= longQueue.maxLength
    /\ shortQueue.maxLength - 1 <= FloorOfHalf(longQueue.maxLength)
    /\ \A i \in 1..Len(stream) : stream[i] = (i > LeadingFalses)
    /\ LeadingFalses >= longQueue.maxLength
    /\ Len(stream) - LeadingFalses <= longQueue.maxLength

\* C19: for L >= 2, 1 <= S <= L, S-1 <= floor(L/2) and a stream of at least L
\* false then L true observations, stateStartJudgment is true at exactly one
\* call, the one right after the floor(L/2)-th true observation, and
\* stateInProgress is true at that call and every later call and at no earlier.
C19_RisingEdgeOnce ==
    RisingEdgeRun =>
        LET edge == LeadingFalses + FloorOfHalf(longQueue.maxLength)
        IN  \A i \in 1..Len(verdicts) :
                /\ ~verdicts[i].threw
                /\ verdicts[i].stateStartJudgment = (i = edge)
                /\ verdicts[i].stateInProgress = (i >= edge)

\* a whole run with L = 4, S = 3: four falses, four trues, the edge at call 6
C19_Witness ==
    /\ RisingEdgeRun
    /\ longQueue.maxLength = 4
    /\ shortQueue.maxLength = 3
    /\ stream = <<FALSE, FALSE, FALSE, FALSE, TRUE, TRUE, TRUE, TRUE>>
    /\ verdicts[6] = Verdict(TRUE, TRUE, FALSE)
    /\ verdicts[8] = Verdict(TRUE, FALSE, FALSE)

(***************************************************************************)
(* Claims about both versions of stateVerdict, under SpecVerdict.          *)
(***************************************************************************)
\* a call that returned for two array histories without a true element:
\* count mode with both parameters valid and the histories complete and of
\* lengths N >= minLong, M >= 1, or two arguments with N, M >= 2 and no throw
InactiveVerdict(minLong) ==
    /\ pc = "done"
    /\ longTrackingHistory.isArray /\ shortTrackingHistory.isArray
    /\ TrueElements(longTrackingHistory) = 0
    /\ TrueElements(shortTrackingHistory) = 0
    /\ LET N == Len(longTrackingHistory.elems)
           M == Len(shortTrackingHistory.elems)
       IN  \/ /\ ValidParam(longMaxLength) /\ ValidParam(shortMaxLength)
              /\ AtLeast(N, longMaxLength) /\ AtLeast(M, shortMaxLength)
              /\ N >= minLong /\ M >= 1
           \/ /\ longMaxLength = Undefined /\ shortMaxLength = Undefined
              /\ N >= 2 /\ M >= 2
              /\ ~result.threw

\* C13 as stated: a verdict for two histories without a true element (count
\* mode with complete histories of lengths N >= 1, M >= 1; ratio mode with
\* N, M >= 2) has all three flags false.
C13_InactiveAlwaysSilent == InactiveVerdict(1) => AllFalse(result)

\* C13, amended: a verdict for two histories without a true element has all
\* three flags false in count mode with complete histories of lengths N >= 2,
\* M >= 1, and in ratio mode with N, M >= 2.
C13_InactiveSilent == InactiveVerdict(2) => AllFalse(result)

\* count mode on complete histories [false, false] and [false]
C13_Witness ==
    /\ InactiveVerdict(2)
    /\ longTrackingHistory = Array(<<FALSE, FALSE>>)
    /\ shortTrackingHistory = Array(<<FALSE>>)
    /\ longMaxLength = Num(2) /\ shortMaxLength = Num(1)
    /\ AllFalse(result)

(***************************************************************************)
(* Claims about the ratio-mode tracker, under SpecTrackRatio.              *)
(***************************************************************************)
\* the observations so far are the first ones of the test's stream
OnTrackingData ==
    /\ stream # << >>
    /\ stream = SubSeq(trackingData, 1, Len(stream))

\* C14: with queues of capacity 6 and 3 fed false,false,false,true,true,true,
\* true,true and the two-argument stateVerdict called after each step with
\* both lengths >= 2, no call throws, and every call at a step where the long
\* queue holds 6 items and the short queue 3 returns stateInProgress = true.
C14_RatioRunInProgress ==
    OnTrackingData =>
        LET last == verdicts[Len(verdicts)]
        IN  /\ ~last.threw
            /\ (/\ last # Skipped
                /\ Len(longQueue.items) = LongCapacity
                /\ Len(shortQueue.items) = ShortCapacity) => last.stateInProgress

(***************************************************************************)
(* Claims about the flags of a count-mode verdict, under SpecCount.        *)
(***************************************************************************)
\* a count-mode call that returned a verdict
CountVerdictGiven ==
    /\ pc = "done"
    /\ longTrackingHistory.isArray /\ shortTrackingHistory.isArray
    /\ ~result.threw

\* C15: in count mode, for every input that yields a verdict,
\* stateStartJudgment = true implies stateInProgress = true, so the two flags
\* can be true together.
C15_StartImpliesInProgress ==
    (CountVerdictGiven /\ result.stateStartJudgment) => result.stateInProgress

\* the start boundary: longTrue = floor(4/2) with the short history all true
C15_Witness ==
    /\ CountVerdictGiven
    /\ longTrackingHistory = Array(<<FALSE, FALSE, TRUE, TRUE>>)
    /\ shortTrackingHistory = Array(<<TRUE, TRUE>>)
    /\ longMaxLength = Num(4) /\ shortMaxLength = Num(2)
    /\ result.stateStartJudgment /\ result.stateInProgress

\* C17: in count mode stateStartJudgment and stateEndJudgment are both true in
\* the same result only if the short history has length M <= 2; for a complete
\* short history with M >= 3 they are never both true.
C17_StartAndEndNeedShortWindow ==
    (CountVerdictGiven /\ result.stateStartJudgment /\ result.stateEndJudgment) =>
        Len(shortTrackingHistory.elems) <= 2

\* M = 2 with one true: shortTrue >= M-1 and shortTrue <= 1 both hold
C17_Witness ==
    /\ CountVerdictGiven
    /\ longTrackingHistory = Array(<<FALSE, TRUE>>)
    /\ shortTrackingHistory = Array(<<FALSE, TRUE>>)
    /\ longMaxLength = Num(2) /\ shortMaxLength = Num(2)
    /\ result.stateStartJudgment /\ result.stateEndJudgment

(***************************************************************************)
(* Claims about the statements of push, under SpecPushSteps.               *)
(***************************************************************************)
\* C16 as stated: at no point during a push, including between appending the
\* new item and evicting the oldest one, does the queue's stored sequence hold
\* more than maxLength items.
C16_NeverOverCapacity ==
    q.exists => Len(heap[q.items]) <= q.maxLength

\* C16, amended: whenever no push is executing the stored sequence holds at
\* most maxLength items; between appending the new item and the eviction test
\* it holds at most maxLength + 1.
C16_OverCapacityOnlyInsidePush ==
    q.exists =>
        /\ pc = "queue" => Len(heap[q.items]) <= q.maxLength
        /\ pc = "push" => Len(heap[q.items]) <= q.maxLength + 1

\* a push on a full queue has returned: the queue is full again, not over
C16_Witness ==
    /\ q.exists
    /\ pc = "queue"
    /\ Len(pushed) > q.maxLength
    /\ Len(heap[q.items]) = q.maxLength

====
